---- MODULE Spec2Model ----
(***************************************************************************)
(* Deposit-coverage validation of Item Fulfillment creation.               *)
(*                                                                         *)
(* Two UserEvent scripts carry the same beforeSubmit routine:              *)
(*   "ue"   = OTP-9419-Restrict-If-Save/_jj_ue_restrict_item_fullfillment.js *)
(*   "part" = unnamed/part_000                                             *)
(* Both are modelled by the same actions, parameterised by the script; the *)
(* places where the two files differ are the operators over `s`.           *)
(***************************************************************************)
EXTENDS Integers, Naturals, Sequences, FiniteSets, TLC

(***************************************************************************)
(* JavaScript Number values.                                               *)
(*                                                                         *)
(* A Number is an IEEE-754 binary64.  Every total handled here is 0, NaN   *)
(* or a value in [2^-MinExp, 2^IntBits), so every finite value is a        *)
(* multiple of 2^-FracBits and is written as a fixed-point bit vector      *)
(* 1..Width (index 1 is the most significant bit, weight 2^(IntBits-1))    *)
(* that has at most MantBits significant bits.                             *)
(***************************************************************************)
MantBits == 53
MinExp == 7
IntBits == 2
FracBits == MinExp + MantBits - 1
Width == IntBits + FracBits

\* The binary expansion of a decimal is computed ChunkBits bits at a time.
ChunkBits == 16
Chunks == (Width \div ChunkBits) + 1

ZeroBits == [i \in 1..Width |-> 0]
NaN == [nan |-> TRUE, bits |-> ZeroBits]
Zero == [nan |-> FALSE, bits |-> ZeroBits]
Num(b) == [nan |-> FALSE, bits |-> b]

RECURSIVE Pow2(_)
Pow2(n) == IF n = 0 THEN 1 ELSE 2 * Pow2(n - 1)

\* Index of the most significant 1 of x (a bit vector 1..n), 0 when x is all zero.
Lead(x, n) == IF \E i \in 1..n : x[i] = 1
              THEN CHOOSE i \in 1..n : x[i] = 1 /\ \A j \in 1..(i - 1) : x[j] = 0
              ELSE 0

\* x + 2^(weight of position pos): the carry ripples up to the nearest 0 bit.
Increment(x, pos) ==
    LET j == CHOOSE k \in 1..pos : x[k] = 0 /\ \A m \in (k + 1)..pos : x[m] = 1
    IN [i \in 1..Width |-> IF i = j THEN 1
                           ELSE IF i > j /\ i <= pos THEN 0
                           ELSE x[i]]

\* Round-to-nearest, ties-to-even, of the exact value x (bits 1..n, n >= Width,
\* followed by a nonzero tail iff sticky) to MantBits significant bits.
RoundNearestEven(x, n, sticky) ==
    LET lead == Lead(x, n)
        last == lead + MantBits - 1
        kept == [i \in 1..Width |-> IF i <= last THEN x[i] ELSE 0]
        guard == IF last + 1 <= n THEN x[last + 1] ELSE 0
        rest == sticky \/ \E j \in (last + 2)..n : x[j] = 1
        up == guard = 1 /\ (rest \/ x[last] = 1)
    IN IF lead = 0 THEN ZeroBits
       ELSE IF last >= n THEN [i \in 1..Width |-> x[i]]
       ELSE IF up THEN Increment(kept, last)
       ELSE kept

\* Long division of r by E in base 2^ChunkBits, k digits: the digits produced and
\* the remainder left.
RECURSIVE DivideChunks(_, _, _, _)
DivideChunks(r, E, k, acc) ==
    IF k = 0 THEN [digits |-> acc, rem |-> r]
    ELSE DivideChunks((r * Pow2(ChunkBits)) % E, E, k - 1,
                      Append(acc, (r * Pow2(ChunkBits)) \div E))

\* The Number nearest to the decimal num/den (StringToNumber's rounding): the binary
\* expansion of num/den to Chunks * ChunkBits places, then rounded.
ToNumber(num, den) ==
    LET n == Chunks * ChunkBits
        q == DivideChunks(num, den * Pow2(IntBits), Chunks, <<>>)
        x == [i \in 1..n |->
                (q.digits[((i - 1) \div ChunkBits) + 1]
                    \div Pow2(ChunkBits - 1 - ((i - 1) % ChunkBits))) % 2]
    IN Num(RoundNearestEven(x, n, q.rem # 0))

\* Carry into position i of the binary addition of a and b: some lower position
\* generates a carry and every position between propagates it.
CarryInto(a, b, i) ==
    \E j \in (i + 1)..Width :
        /\ a[j] = 1 /\ b[j] = 1
        /\ \A k \in (i + 1)..(j - 1) : a[k] # b[k]

\* a + b on Numbers: the exact sum, rounded to nearest even; NaN is absorbing.
NumberAdd(a, b) ==
    IF a.nan \/ b.nan THEN NaN
    ELSE LET sum == [i \in 1..Width |->
                       (a.bits[i] + b.bits[i]
                          + (IF CarryInto(a.bits, b.bits, i) THEN 1 ELSE 0)) % 2]
         IN Num(RoundNearestEven(sum, Width, FALSE))

\* a < b on Numbers: false whenever either side is NaN.
NumberLess(a, b) ==
    /\ ~a.nan
    /\ ~b.nan
    /\ \E i \in 1..Width : /\ a.bits[i] < b.bits[i]
                           /\ \A j \in 1..(i - 1) : a.bits[j] = b.bits[j]


(***************************************************************************)
(* Field values and parseFloat.                                            *)
(*                                                                         *)
(* A field value handed out by the host (Record.getValue, Result.getValue, *)
(* lookupFields) is null or a string, written as its characters.           *)
(***************************************************************************)
Missing == [isNull |-> TRUE, chars |-> <<>>]
Str(cs) == [isNull |-> FALSE, chars |-> cs]

Digits == {"0", "1", "2", "3", "4", "5", "6", "7", "8", "9"}
DigitValue(c) ==
    CASE c = "0" -> 0 [] c = "1" -> 1 [] c = "2" -> 2 [] c = "3" -> 3 [] c = "4" -> 4
      [] c = "5" -> 5 [] c = "6" -> 6 [] c = "7" -> 7 [] c = "8" -> 8 [] c = "9" -> 9

RECURSIVE Pow10(_)
Pow10(n) == IF n = 0 THEN 1 ELSE 10 * Pow10(n - 1)

\* String(v) of a field value: null prints as the four characters of "null".
StringOf(v) == IF v.isNull THEN <<"n", "u", "l", "l">> ELSE v.chars

\* The run of decimal digits of str that starts at position i: its value and length.
RECURSIVE ScanDigits(_, _, _, _)
ScanDigits(str, i, val, n) ==
    IF i <= Len(str) /\ str[i] \in Digits
    THEN ScanDigits(str, i + 1, 10 * val + DigitValue(str[i]), n + 1)
    ELSE [val |-> val, n |-> n]

\* The longest prefix of String(v) that is a decimal literal (digits, an optional
\* point, digits), as the fraction num/den; ok is FALSE when no digit is read.
\* Signs, exponents, white space and "Infinity" do not occur in RawTotals.
DecimalPrefix(v) ==
    LET str == StringOf(v)
        int == ScanDigits(str, 1, 0, 0)
        dot == int.n + 1
        frac == IF dot <= Len(str) /\ str[dot] = "."
                THEN ScanDigits(str, dot + 1, 0, 0)
                ELSE [val |-> 0, n |-> 0]
        den == Pow10(frac.n)
    IN [ok |-> int.n + frac.n > 0, num |-> int.val * den + frac.val, den |-> den]

parseFloat(v) ==
    LET d == DecimalPrefix(v) IN IF d.ok THEN ToNumber(d.num, d.den) ELSE NaN

\* x || 0 on a Number: NaN and 0 are the falsy Numbers.
OrZero(x) == IF x.nan \/ x.bits = ZeroBits THEN Zero ELSE x

\* !v on a field value: null and the empty string are falsy.
Falsy(v) == v.isNull \/ v.chars = <<>>

(***************************************************************************)
(* Inputs of one record submission.                                        *)
(***************************************************************************)
MaxResults == 2

Scripts == {"ue", "part"}

CREATE == "create"
EventTypes == {CREATE, "edit", "delete"}

USEREVENT == "USEREVENT"
ContextTypes == {USEREVENT, "USERINTERFACE", "CSVIMPORT"}

CreatedFromValues == {Missing, Str(<<>>), Str(<<"1", "0", "4", "2">>)}

\* 'total' values: absent, not a number, and the currency strings .10 .70 .80
RawTotals == {Missing, Str(<<"n", "/", "a">>), Str(<<".", "1", "0">>),
              Str(<<".", "7", "0">>), Str(<<".", "8", "0">>)}

ResultLists == UNION {[1..n -> RawTotals] : n \in 0..MaxResults}

\* Values thrown by the host's services.
OrderLookupError == [kind |-> "error", name |-> "RCRD_DSNT_EXIST"]
SearchError == [kind |-> "error", name |-> "SSS_SEARCH_FAILED"]
LogError == [kind |-> "error", name |-> "SSS_LOG_FAILED"]
NoError == [kind |-> "none", name |-> ""]

VARIABLES
    deployed,          \* the scripts the host runs on this submission
    type,              \* scriptContext.type
    createdfrom,       \* newRecord.getValue('createdfrom')
    executionContext,  \* runtime.executionContext
    orderTotalField,   \* the 'total' field of the sales order
    depositResults,    \* 'total' of each customer deposit the search yields
    pc,                \* per script: position in beforeSubmit
    soId, soTotal, depositTotal,   \* per script: the locals of these names
    visited,           \* per script: results the each() callback has seen
    logs,              \* per script: entries the log sink accepted
    calls,             \* per script: calls made to the host and to applyRestrictionLogic
    outcome            \* per script: how beforeSubmit ended

inputs == <<deployed, type, createdfrom, executionContext, orderTotalField, depositResults>>
locals == <<soId, soTotal, depositTotal, visited>>
vars == <<inputs, pc, locals, logs, calls, outcome>>

NotEnded == [kind |-> "none", value |-> [kind |-> "undefined"]]
Returned == [kind |-> "returned", value |-> [kind |-> "undefined"]]
Thrown(e) == [kind |-> "thrown", value |-> e]

Call(op, ok, error) == [op |-> op, ok |-> ok, error |-> error]

(***************************************************************************)
(* The places where the two files differ.                                  *)
(***************************************************************************)
\* record.load + getValue('total') in ue, search.lookupFields in part
OrderLookupOp(s) == IF s = "ue" THEN "record.load" ELSE "search.lookupFields"

\* log.debug('Exit', ...) before the early return of a non-create event: ue only
ExitLog(s) ==
    IF s = "ue"
    THEN <<[level |-> "debug", title |-> "Exit",
            details |-> [template |-> "Not a Create operation."]]>>
    ELSE <<>>

\* log.debug('Skip', ...) before the early return of an unlinked record: ue only
SkipLog(s) ==
    IF s = "ue"
    THEN <<[level |-> "debug", title |-> "Skip",
            details |-> [template |-> "No Sales Order linked."]]>>
    ELSE <<>>

\* level of the 'Deposit Validation' entry
ValidationLevel(s) == IF s = "ue" THEN "debug" ELSE "audit"

\* level of the 'Validation Passed' entry
PassedLevel(s) == IF s = "ue" THEN "debug" ELSE "audit"

(***************************************************************************)
(* Pure parts of the routine.                                              *)
(***************************************************************************)
IsCreate(t) == t = CREATE

IsUserEventFlipped(execContext) == execContext # USEREVENT
IsUserEvent(execContext) == execContext = USEREVENT

ValidationEntry(s, id, tot, dep) ==
    [level |-> ValidationLevel(s), title |-> "Deposit Validation",
     details |-> [template |-> "Sales Order ID: ${soId} | Sales Order Total: ${soTotal} | Deposit Total: ${depositTotal}",
                  soId |-> id, soTotal |-> tot, depositTotal |-> dep]]

BypassedEntry(id) ==
    [level |-> "audit", title |-> "Restriction Bypassed",
     details |-> [template |-> "Bulk fulfillment detected for Sales Order ${soId}. Deposit less than Sales Order total, but restriction bypassed.",
                  soId |-> id]]

BulkAllowedEntry(id) ==
    [level |-> "audit", title |-> "Bulk Fulfillment Allowed",
     details |-> [template |-> "Deposit sufficient for Sales Order ${soId}. Bulk fulfillment proceeding.",
                  soId |-> id]]

PassedEntry(s, id) ==
    [level |-> PassedLevel(s), title |-> "Validation Passed",
     details |-> [template |-> "Deposit sufficient for Sales Order ${soId}. Single fulfillment allowed.",
                  soId |-> id]]

DenialMessage(id, dep, tot) ==
    [kind |-> "string",
     template |-> "Cannot fulfill this Sales Order (${soId}). Total deposit (${depositTotal}) is less than the order total (${soTotal}).",
     soId |-> id, depositTotal |-> dep, soTotal |-> tot]

\* catch (e) { throw e; } of getSalesOrderAndDepositTotals and applyRestrictionLogic
Rethrow(e) == e

handleErrorWrapped(e) == [kind |-> "error", name |-> "UNEXPECTED_ERROR"]
handleError(e) == e

\* return value of the each() callback: true asks for the next result
CallbackReturn == TRUE


(***************************************************************************)
(* The state machine: one beforeSubmit invocation per deployed script.     *)
(***************************************************************************)
TypeOK ==
    /\ deployed \subseteq Scripts
    /\ type \in EventTypes
    /\ createdfrom \in CreatedFromValues
    /\ executionContext \in ContextTypes
    /\ orderTotalField \in RawTotals
    /\ depositResults \in ResultLists
    /\ pc \in [Scripts -> {"idle", "type", "createdfrom", "order", "search", "each",
                           "validation", "apply", "done"}]
    /\ visited \in [Scripts -> 0..MaxResults]
    /\ \A s \in Scripts : outcome[s].kind \in {"none", "returned", "thrown"}

InitInputs ==
    /\ type \in EventTypes
    /\ createdfrom \in CreatedFromValues
    /\ executionContext \in ContextTypes
    /\ orderTotalField \in RawTotals
    /\ depositResults \in ResultLists

InitScripts ==
    /\ pc = [s \in Scripts |-> "idle"]
    /\ soId = [s \in Scripts |-> Missing]
    /\ soTotal = [s \in Scripts |-> Zero]
    /\ depositTotal = [s \in Scripts |-> Zero]
    /\ visited = [s \in Scripts |-> 0]
    /\ logs = [s \in Scripts |-> <<>>]
    /\ calls = [s \in Scripts |-> <<>>]
    /\ outcome = [s \in Scripts |-> NotEnded]

\* One of the two scripts is deployed on the record type.
Init == (\E s \in Scripts : deployed = {s}) /\ InitInputs /\ InitScripts

\* Both are deployed; the host runs them on the same submission, one after the other.
InitBoth == deployed = Scripts /\ InitInputs /\ InitScripts

Goto(s, p) == pc' = [pc EXCEPT ![s] = p]
Called(s, c) == calls' = [calls EXCEPT ![s] = Append(@, c)]
End(s, res) == /\ pc' = [pc EXCEPT ![s] = "done"]
               /\ outcome' = [outcome EXCEPT ![s] = res]

\* beforeSubmit's catch: handleError(e) throws to the host.
Fail(s, e) == End(s, Thrown(handleError(e)))

\* A log call that is the last statement before `ending`: the sink takes the entry
\* (ok) or throws.
LogThenEnd(s, entry, ok, ending) ==
    /\ Called(s, Call("log." \o entry.level, ok, IF ok THEN NoError ELSE LogError))
    /\ IF ok
       THEN /\ logs' = [logs EXCEPT ![s] = Append(@, entry)]
            /\ End(s, ending)
       ELSE /\ logs' = logs
            /\ Fail(s, LogError)

\* The host calls beforeSubmit of a deployed script; user event scripts of one
\* submission run one after the other.
Invoke(s) ==
    /\ s \in deployed
    /\ pc[s] = "idle"
    /\ \A t \in Scripts : pc[t] \in {"idle", "done"}
    /\ Goto(s, "type")
    /\ UNCHANGED <<inputs, locals, logs, calls, outcome>>

\* if (scriptContext.type !== scriptContext.UserEventType.CREATE) { [log;] return; }
CheckType(s) ==
    /\ pc[s] = "type"
    /\ IF IsCreate(type)
       THEN Goto(s, "createdfrom") /\ UNCHANGED <<logs, calls, outcome>>
       ELSE IF ExitLog(s) = <<>>
            THEN End(s, Returned) /\ UNCHANGED <<logs, calls>>
            ELSE \E ok \in BOOLEAN : LogThenEnd(s, ExitLog(s)[1], ok, Returned)
    /\ UNCHANGED <<inputs, locals>>

\* soId = newRec.getValue('createdfrom'); if (!soId) { [log;] return; }
GetCreatedFrom(s) ==
    /\ pc[s] = "createdfrom"
    /\ soId' = [soId EXCEPT ![s] = createdfrom]
    /\ IF ~Falsy(createdfrom)
       THEN /\ Called(s, Call("getValue", TRUE, NoError))
            /\ Goto(s, "order")
            /\ UNCHANGED <<logs, outcome>>
       ELSE IF SkipLog(s) = <<>>
            THEN /\ Called(s, Call("getValue", TRUE, NoError))
                 /\ End(s, Returned)
                 /\ UNCHANGED logs
            ELSE \E ok \in BOOLEAN :
                    /\ calls' = [calls EXCEPT ![s] =
                                   @ \o <<Call("getValue", TRUE, NoError),
                                          Call("log." \o SkipLog(s)[1].level, ok,
                                               IF ok THEN NoError ELSE LogError)>>]
                    /\ IF ok
                       THEN /\ logs' = [logs EXCEPT ![s] = Append(@, SkipLog(s)[1])]
                            /\ End(s, Returned)
                       ELSE /\ logs' = logs
                            /\ Fail(s, LogError)
    /\ UNCHANGED <<inputs, soTotal, depositTotal, visited>>

\* getSalesOrderAndDepositTotals: the order lookup, soTotal = parseFloat(total) || 0,
\* depositTotal = 0.  The lookup may throw.
LookupOrder(s) ==
    /\ pc[s] = "order"
    /\ \E ok \in BOOLEAN :
          /\ Called(s, Call(OrderLookupOp(s), ok, IF ok THEN NoError ELSE OrderLookupError))
          /\ IF ok
             THEN /\ soTotal' = [soTotal EXCEPT ![s] = OrZero(parseFloat(orderTotalField))]
                  /\ depositTotal' = [depositTotal EXCEPT ![s] = Zero]
                  /\ Goto(s, "search")
                  /\ UNCHANGED outcome
             ELSE /\ Fail(s, Rethrow(OrderLookupError))
                  /\ UNCHANGED <<soTotal, depositTotal>>
    /\ UNCHANGED <<inputs, soId, visited, logs>>

\* search.create({type: 'customerdeposit', ...}) and run(); either may throw.
CreateSearch(s) ==
    /\ pc[s] = "search"
    /\ \E ok \in BOOLEAN :
          /\ Called(s, Call("search.create", ok, IF ok THEN NoError ELSE SearchError))
          /\ IF ok
             THEN Goto(s, "each") /\ UNCHANGED outcome
             ELSE Fail(s, Rethrow(SearchError))
    /\ UNCHANGED <<inputs, locals, logs>>

\* each(): the next result is fetched and handed to the callback (the result lists
\* stay far below each()'s limit of 4000 results),
\* depositTotal += parseFloat(result.getValue('total')) || 0; the fetch may throw.
EachResult(s) ==
    /\ pc[s] = "each"
    /\ visited[s] < Len(depositResults)
    /\ \E ok \in BOOLEAN :
          /\ Called(s, Call("each", ok, IF ok THEN NoError ELSE SearchError))
          /\ IF ok
             THEN /\ depositTotal' = [depositTotal EXCEPT ![s] =
                        NumberAdd(@, OrZero(parseFloat(depositResults[visited[s] + 1])))]
                  /\ visited' = [visited EXCEPT ![s] = @ + 1]
                  /\ Goto(s, IF CallbackReturn THEN "each" ELSE "validation")
                  /\ UNCHANGED outcome
             ELSE /\ Fail(s, Rethrow(SearchError))
                  /\ UNCHANGED <<depositTotal, visited>>
    /\ UNCHANGED <<inputs, soId, soTotal, logs>>

\* each() has no more results: return { soTotal, depositTotal };
ReturnTotals(s) ==
    /\ pc[s] = "each"
    /\ visited[s] = Len(depositResults)
    /\ Goto(s, "validation")
    /\ UNCHANGED <<inputs, locals, logs, calls, outcome>>

\* log.debug / log.audit ({title: 'Deposit Validation', ...}), then applyRestrictionLogic
LogValidation(s) ==
    /\ pc[s] = "validation"
    /\ \E ok \in BOOLEAN :
          /\ Called(s, Call("log." \o ValidationLevel(s), ok,
                            IF ok THEN NoError ELSE LogError))
          /\ IF ok
             THEN /\ logs' = [logs EXCEPT ![s] =
                        Append(@, ValidationEntry(s, soId[s], soTotal[s], depositTotal[s]))]
                  /\ Goto(s, "apply")
                  /\ UNCHANGED outcome
             ELSE /\ logs' = logs
                  /\ Fail(s, LogError)
    /\ UNCHANGED <<inputs, locals>>

\* applyRestrictionLogic(execContext, soId, soTotal, depositTotal)
applyRestrictionLogic(s) ==
    /\ pc[s] = "apply"
    /\ LET entered == Append(calls[s], Call("applyRestrictionLogic", TRUE, NoError))
           short == NumberLess(depositTotal[s], soTotal[s])
           Log(entry, ok) ==
               /\ calls' = [calls EXCEPT ![s] =
                     Append(entered, Call("log." \o entry.level, ok,
                                          IF ok THEN NoError ELSE LogError))]
               /\ IF ok
                  THEN /\ logs' = [logs EXCEPT ![s] = Append(@, entry)]
                       /\ End(s, Returned)
                  ELSE /\ logs' = logs
                       /\ Fail(s, Rethrow(LogError))
       IN IF IsUserEvent(executionContext)
          THEN IF short
               THEN \E ok \in BOOLEAN : Log(BypassedEntry(soId[s]), ok)
               ELSE \E ok \in BOOLEAN : Log(BulkAllowedEntry(soId[s]), ok)
          ELSE IF short
               THEN /\ calls' = [calls EXCEPT ![s] = entered]
                    /\ logs' = logs
                    /\ Fail(s, Rethrow(DenialMessage(soId[s], depositTotal[s], soTotal[s])))
               ELSE \E ok \in BOOLEAN : Log(PassedEntry(s, soId[s]), ok)
    /\ UNCHANGED <<inputs, locals>>

Next ==
    \E s \in Scripts :
        \/ Invoke(s)
        \/ CheckType(s)
        \/ GetCreatedFrom(s)
        \/ LookupOrder(s)
        \/ CreateSearch(s)
        \/ EachResult(s)
        \/ ReturnTotals(s)
        \/ LogValidation(s)
        \/ applyRestrictionLogic(s)

Spec == Init /\ [][Next]_vars

SpecBoth == InitBoth /\ [][Next]_vars


(***************************************************************************)
(* Vocabulary of the properties.                                           *)
(***************************************************************************)
Done(s) == pc[s] = "done"

\* A create event whose new record is linked to a sales order.
Linked == IsCreate(type) /\ ~Falsy(createdfrom)

OrderLookupOps == {"record.load", "search.lookupFields"}
LookupOps == OrderLookupOps \cup {"search.create", "each"}
LogOps == {"log.debug", "log.audit"}

IsLookupCall(c) == c.op \in LookupOps

LookupFailed(s) == \E i \in DOMAIN calls[s] : calls[s][i].op \in LookupOps /\ ~calls[s][i].ok
LogFailed(s) == \E i \in DOMAIN calls[s] : calls[s][i].op \in LogOps /\ ~calls[s][i].ok
ReachedDecision(s) == \E i \in DOMAIN calls[s] : calls[s][i].op = "applyRestrictionLogic"

\* depositTotal < soTotal on the script's computed totals
Short(s) == NumberLess(depositTotal[s], soTotal[s])

\* The thrown value is the denial text and carries the three interpolated values.
IsDenialOf(v, s) ==
    /\ v.kind = "string"
    /\ {"soId", "depositTotal", "soTotal"} \subseteq DOMAIN v
    /\ v.soId = soId[s]
    /\ v.depositTotal = depositTotal[s]
    /\ v.soTotal = soTotal[s]

AuditEntries(s) == {logs[s][i] : i \in {j \in DOMAIN logs[s] : logs[s][j].level = "audit"}}

\* Titles of the entries that state the outcome of the decision.
OutcomeTitles == {"Restriction Bypassed", "Bulk Fulfillment Allowed", "Validation Passed"}

\* C1: on a create event with a linked sales order whose lookups succeeded, with
\* depositTotal < soTotal outside the USEREVENT context, beforeSubmit ends by
\* throwing, and the thrown message carries the order id and both totals.
C1_DenialOutsideUserEvent ==
    \A s \in Scripts :
        (Done(s) /\ Linked /\ ~LookupFailed(s) /\ executionContext # USEREVENT /\ Short(s))
            => (outcome[s].kind = "thrown" /\ IsDenialOf(outcome[s].value, s))

\* C2: on a create event with a linked sales order, when the lookups and the log
\* calls succeeded, the context is USEREVENT and depositTotal < soTotal, beforeSubmit
\* returns normally and has emitted the 'Restriction Bypassed' audit entry that names
\* the sales order.
C2_BypassUnderUserEvent ==
    \A s \in Scripts :
        (Done(s) /\ Linked /\ ~LookupFailed(s) /\ ~LogFailed(s)
                 /\ executionContext = USEREVENT /\ Short(s))
            => /\ outcome[s].kind = "returned"
               /\ \E e \in AuditEntries(s) : /\ e.title = "Restriction Bypassed"
                                            /\ e.details.soId = createdfrom

C2_Witness ==
    \E s \in Scripts :
        /\ Done(s) /\ Linked /\ ~LookupFailed(s) /\ ~LogFailed(s)
        /\ executionContext = USEREVENT /\ Short(s)
        /\ outcome[s].kind = "returned"

\* C3: once applyRestrictionLogic has run with depositTotal >= soTotal (equality
\* included) it has returned without throwing, in every context; a denial is thrown
\* only when depositTotal < soTotal.
C3_SufficientDepositAllows ==
    \A s \in Scripts :
        (Done(s) /\ ReachedDecision(s))
            => /\ ~Short(s) => outcome[s].kind = "returned"
               /\ (outcome[s].kind = "thrown" /\ outcome[s].value.kind = "string") => Short(s)

\* C4: when the event type is not CREATE the invocation has no side effect at any
\* point: no call to the host (no field read, no lookup, no log call), no log entry,
\* and it never ends by throwing.
C4_NonCreateIsNoOp ==
    \A s \in Scripts :
        ~IsCreate(type)
            => /\ calls[s] = <<>>
               /\ logs[s] = <<>>
               /\ outcome[s].kind # "thrown"

\* C5: a create event whose record has no linked sales order makes no order or deposit
\* lookup, emits no audit entry, and returns normally, in every context.
C5_UnlinkedIsNoOp ==
    \A s \in Scripts :
        (IsCreate(type) /\ Falsy(createdfrom))
            => /\ \A i \in DOMAIN calls[s] : calls[s][i].op \notin LookupOps
               /\ AuditEntries(s) = {}
               /\ Done(s) => outcome[s].kind = "returned"

\* C6: an invocation that reached the decision has, when it ends, emitted audit-level
\* entries that capture the order id, the order total and the deposit total, and an
\* audit-level entry that states the outcome.  Stated for the invocations in which
\* every log call succeeded, so that a violation is a branch that does not audit.
C6_EveryBranchAudited ==
    \A s \in Scripts :
        (Done(s) /\ ReachedDecision(s) /\ ~LogFailed(s))
            => /\ \E e \in AuditEntries(s) :
                     /\ {"soId", "soTotal", "depositTotal"} \subseteq DOMAIN e.details
                     /\ e.details.soId = soId[s]
                     /\ e.details.soTotal = soTotal[s]
                     /\ e.details.depositTotal = depositTotal[s]
               /\ \E e \in AuditEntries(s) : e.title \in OutcomeTitles

\* The decision of the policy table on the inputs and the computed totals.
CoreDecision(s) ==
    IF Linked /\ executionContext # USEREVENT /\ Short(s)
    THEN Thrown(DenialMessage(soId[s], depositTotal[s], soTotal[s]))
    ELSE Returned

\* C7: a log call that throws does not change how beforeSubmit ends: the invocation
\* ends as the policy table decides.
C7_LogFailureDoesNotBlock ==
    \A s \in Scripts : (Done(s) /\ LogFailed(s)) => outcome[s] = CoreDecision(s)

\* C8: each lookup is attempted at most once per invocation; a lookup that throws is
\* the last call of the invocation (no retry, no further lookup, no log call, no
\* applyRestrictionLogic), no log entry has been emitted, and beforeSubmit has ended
\* by throwing that same value.
C8_LookupFailurePropagates ==
    \A s \in Scripts :
        /\ Cardinality({i \in DOMAIN calls[s] : calls[s][i].op \in OrderLookupOps}) <= 1
        /\ Cardinality({i \in DOMAIN calls[s] : calls[s][i].op = "search.create"}) <= 1
        /\ Cardinality({i \in DOMAIN calls[s] : calls[s][i].op = "each"}) <= Len(depositResults)
        /\ \A i \in DOMAIN calls[s] :
              (calls[s][i].op \in LookupOps /\ ~calls[s][i].ok)
                  => /\ i = Len(calls[s])
                     /\ Done(s)
                     /\ outcome[s] = Thrown(calls[s][i].error)
                     /\ logs[s] = <<>>
                     /\ ~ReachedDecision(s)

C8_Witness ==
    \E s \in Scripts :
        /\ Done(s)
        /\ visited[s] >= 1
        /\ calls[s][Len(calls[s])] = Call("each", FALSE, SearchError)
        /\ outcome[s] = Thrown(SearchError)

\* The decimal a 'total' field stands for; a missing or unparseable one counts as 0.
DecimalOf(v) ==
    LET d == DecimalPrefix(v)
    IN IF d.ok THEN [num |-> d.num, den |-> d.den] ELSE [num |-> 0, den |-> 1]

\* Exact sum of two decimals over the larger of the two power-of-ten denominators.
DecimalAdd(a, b) ==
    LET den == IF a.den >= b.den THEN a.den ELSE b.den
    IN [num |-> a.num * (den \div a.den) + b.num * (den \div b.den), den |-> den]

RECURSIVE ArithmeticSum(_, _)
ArithmeticSum(results, n) ==
    IF n = 0 THEN [num |-> 0, den |-> 1]
    ELSE DecimalAdd(ArithmeticSum(results, n - 1), DecimalOf(results[n]))

\* C9: the totals getSalesOrderAndDepositTotals returns: depositTotal is the
\* arithmetic sum of the 'total' of all results (0 for a missing or unparseable one,
\* 0 for no results), soTotal is the order's 'total' (0 when missing or unparseable).
C9_DepositTotalIsArithmeticSum ==
    \A s \in Scripts :
        pc[s] \in {"validation", "apply"}
            => /\ visited[s] = Len(depositResults)
               /\ LET sum == ArithmeticSum(depositResults, Len(depositResults))
                  IN depositTotal[s] = ToNumber(sum.num, sum.den)
               /\ LET tot == DecimalOf(orderTotalField)
                  IN soTotal[s] = ToNumber(tot.num, tot.den)

\* The ok/failed outcomes of the lookups a script made, in order.
LookupOutcomes(s) ==
    LET made == SelectSeq(calls[s], IsLookupCall)
    IN [i \in 1..Len(made) |-> made[i].ok]

\* C10: run on the same event, context and lookup results, the two scripts end the
\* same way: both return, or both throw the same value.
C10_ScriptsDecisionEquivalent ==
    (Done("ue") /\ Done("part") /\ LookupOutcomes("ue") = LookupOutcomes("part"))
        => outcome["ue"] = outcome["part"]

====
